---- MODULE Spec2Model ----
(***************************************************************************)
(* Gateway session of disgo (gateway/gateway_impl.go): one gatewayImpl     *)
(* with its goroutines -- the caller of the public API, one listen         *)
(* goroutine per connection, one heartbeat goroutine per Hello and the     *)
(* reconnect goroutines.  A step is what a goroutine does from one point   *)
(* where it can block (NextReader, the ticker, the dial, connMu) to the    *)
(* next; a goroutine that needs connMu takes its step when connMu is free. *)
(***************************************************************************)
EXTENDS Integers, Sequences, FiniteSets, TLC

\* ---- bounds -------------------------------------------------------------
MaxConns == 2          \* connections the dialer can establish in a run
MaxRecons == 1         \* reconnect goroutines that exist at the same time
MaxSeq == 2            \* dispatch sequence numbers the server draws from
MaxReqs == 2           \* calls of requestGuildMembersChan in a run
MaxChunks == 2         \* largest chunk count of a payload
MaxGathers == 1        \* calls of requestGuildMembers in a run
MaxGuilds == 2         \* guild ids
MaxSenders == 2        \* flows that call Send at the same time
MaxTime == 4           \* ticks of the clock in a run
Budget == 2            \* commands the rate limiter admits per window
Window == 2            \* ticks of one window of the rate limiter

\* ---- program constants --------------------------------------------------
CloseNormalClosure == 1000
CloseGoingAway == 1001
CloseServiceRestart == 1012
MaxReconnectTries == 10

Nil == 0

Conns == 1..MaxConns

\* holders of connMu: Open is the only call that keeps connMu across a
\* blocking operation (the dial)
NoOne == "none"
User == "user"
Reconnect == "reconnect"
Openers == {User, Reconnect}

\* codes a caller passes to CloseWithCode
UserCloseCodes == {CloseNormalClosure, CloseGoingAway, CloseServiceRestart}

\* close codes the server sends (discord.GatewayCloseEventCode)
GatewayCloseEventCodeUnknownError == "UnknownError"
GatewayCloseEventCodeInvalidSeq == "InvalidSeq"
GatewayCloseEventCodeAuthenticationFailed == "AuthenticationFailed"
GatewayCloseEventCodeDisallowedIntents == "DisallowedIntents"
ServerCloseCodes == {GatewayCloseEventCodeUnknownError,
                     GatewayCloseEventCodeInvalidSeq,
                     GatewayCloseEventCodeAuthenticationFailed,
                     GatewayCloseEventCodeDisallowedIntents}

\* read errors of conn.NextReader: a close frame of the server, the
\* connection closed on our side, any other transport failure
ReadErrors == ServerCloseCodes \cup {"NetClosed", "NetError"}

\* the classification table of the close codes: fatal codes are not retried
ShouldReconnect(closeCode) ==
    closeCode \notin {GatewayCloseEventCodeAuthenticationFailed,
                      GatewayCloseEventCodeDisallowedIntents}

VARIABLES
    status,           \* g.status
    conn,             \* g.conn: Nil or a connection handle
    connMu,           \* g.connMu: who holds it across the dial, or NoOne
    openPc,           \* the Open holding connMu: "dial", "close"; else "-"
    sessionID,        \* g.config.SessionID: Nil or a session id
    lastSeq,          \* g.config.LastSequenceReceived: Nil or a sequence
    heartbeatTicker,  \* g.heartbeatTicker: Nil or the ticker of heartbeat c
    heartbeat,        \* heartbeat goroutine of connection c: "start" (no
                      \* ticker yet), "running"; "none" before it exists
                      \* and once its ticker is stopped (it ranges over
                      \* the channel of the stopped ticker for ever)
    hbAcked,          \* lastHeartbeatReceived is not before lastHeartbeatSent
    autoReconnect,    \* g.config.AutoReconnect
    connState,        \* transport of handle c: "free", "open", "closed" (on
                      \* our side), or the read error that ended it
    listen,           \* listen goroutine of connection c: "none", "hello"
                      \* (in NextReader, no Hello yet), "handshake" (in
                      \* identify or resume, before Send), "read" (in
                      \* NextReader after the Hello)
    hs,               \* the frame identify or resume of listen c has built
    reconnects,       \* reconnect goroutines about to call Open
    wrote,            \* the frame the last step wrote through send
    returned,         \* what the last step handed to the caller: the return
                      \* of its public call, or the callback it invoked
    due               \* what the last close by the server asks of the next
                      \* handshake: "none", "resume", "identify"; with
                      \* ":closed" once the caller closed gracefully, with
                      \* ":answered" once a Hello was answered

\* the member chunking manager (bot/member_chunking_manager.go)
VARIABLES
    chunkingRequests, \* m.chunkingRequests: nonce -> request, NoRequest if absent
    shard,            \* m.client.Shard(guildID) of the guild of the
                      \* requests: NoShard when the lookup fails, else
                      \* the shard by its intents
    api,              \* the entry point the callers use: "chan"
                      \* (requestGuildMembersChan) or "gather"
                      \* (requestGuildMembers)
    reqPc,            \* call r of requestGuildMembersChan and its caller:
                      \* "idle", "checked" (nonce found free), "open"
                      \* (returned; a gather call is in its select),
                      \* "closing" (cancel closed the sink), "cancelled"
                      \* (cancel returned; a gather call returned
                      \* ctx.Err()), "abandoned" (the caller reads the
                      \* sink no more), or how the call ended: "ShardErr",
                      \* "ErrNoGuildMembersIntent", "SendErr", "returned"
    gathered,         \* members of the gather call r: what it appended
    nonce,            \* request.nonce of call r
    chunks,           \* request.chunks of call r
    memberChan,       \* request.memberChan of call r: "none", "open", "closed"
    received,         \* the member the last step delivered, and the
                      \* request whose caller received it from its sink
    members,          \* the member cache: the members put so far
    hPc,              \* the HandleChunk in progress: "idle", "send" (in
                      \* the send to the sink), "delete" (sink closed,
                      \* before the delete of cleanupRequest)
    hPayload,         \* its payload (all: the members it carries), with
                      \* members: those from the one in the send on, and
                      \* sent: those sent to the sink so far
    hRequest,         \* its request
    hOut,             \* the HandleChunk that ended in the last step: how
                      \* ("miss", "returned") and the nonce of its payload
    panicked          \* the panic that ended the program, or "-"

\* the interval of the heartbeat (gateway/gateway_impl.go, 239-241, 363-367)
VARIABLES
    heartbeatInterval, \* g.heartbeatInterval, 0 while it is not set
    tickerInterval     \* the interval heartbeat c gave to time.NewTicker

timerVars == <<heartbeatInterval, tickerInterval>>

gatewayVars == <<status, conn, connMu, openPc, sessionID, lastSeq,
                 heartbeatTicker, heartbeat, hbAcked, autoReconnect, connState,
                 listen, hs, reconnects, wrote, returned, due>>

\* the guild cache (core/cache_guild.go) and the Ready handler
\* (handlers/ready_handler.go)
VARIABLES
    guildCache,       \* the guildCacheImpl: cacheFlags (whether
                      \* CacheFlagGuilds is set) and the key sets of its
                      \* maps guilds, unreadyGuilds, unavailableGuilds
    marked            \* the last calls, as far as they are the start of
                      \* SetUnavailable(id), SetUnready(id), SetReady(id):
                      \* id and how many of the three, else NoMarks

cacheVars == <<guildCache, marked>>

\* g.config.RateLimiter and the flows that send through it
VARIABLES
    rateLimiter,      \* the limiter: remaining, the slots left in its window
    now,              \* the clock, in ticks
    admitted,         \* per tick, the frames written after a Wait
    waiting           \* the sender that is blocked in Wait (it holds
                      \* connMu), or NoSender

limiterVars == <<rateLimiter, now, admitted, waiting>>

\* what a run does not change: the shard of the guild and the entry point
configVars == <<shard, api>>

chunkVars == <<configVars, chunkingRequests, reqPc, gathered, nonce, chunks,
               memberChan, received, members, hPc, hPayload, hRequest, hOut,
               panicked>>

vars == <<gatewayVars, chunkVars, cacheVars, limiterVars, timerVars>>

NoFrame == [op |-> "-", sid |-> 0, seq |-> 0]
Frame(op, sid, seq) == [op |-> op, sid |-> sid, seq |-> seq]

NoCall == [op |-> "-", code |-> 0, res |-> "-"]
Call(op, code, res) == [op |-> op, code |-> code, res |-> res]

Min(S) == CHOOSE x \in S : \A y \in S : x <= y

\* handles the dialer has not handed out yet
FreeConns == {c \in Conns : connState[c] = "free"}

Reqs == 1..MaxReqs
\* the nonces RandStr draws in a run
Nonces == {"x", "y"}
NoRequest == 0

\* the shard of the guild: none, or one whose intents lack or hold
\* GatewayIntentGuildMembers
NoShard == "none"
WithoutMembers == "without GuildMembers"
WithMembers == "with GuildMembers"
Shards == {NoShard, WithoutMembers, WithMembers}

\* outcomes of shard.Send
SendResults == {"ok", "err"}
NoDelivery == [to |-> 0, member |-> "-"]
NoOut == [res |-> "-", nonce |-> "-"]
NoPayload == [nonce |-> "-", index |-> 0, count |-> 0, all |-> <<>>,
              members |-> <<>>, sent |-> <<>>, pass |-> {}]

\* NewMemberChunkingManager: no request yet, no HandleChunk in progress
ChunkingInit ==
    /\ chunkingRequests = [n \in Nonces |-> NoRequest]
    /\ reqPc = [r \in Reqs |-> "idle"]
    /\ gathered = [r \in Reqs |-> <<>>]
    /\ nonce = [r \in Reqs |-> "-"]
    /\ chunks = [r \in Reqs |-> 0]
    /\ memberChan = [r \in Reqs |-> "none"]
    /\ received = NoDelivery
    /\ members = {}
    /\ hPc = "idle"
    /\ hPayload = NoPayload
    /\ hRequest = NoRequest
    /\ hOut = NoOut
    /\ panicked = "-"

Senders == 1..MaxSenders
NoSender == 0
Sender == "sender"

\* RateLimiter.Reset(): the counter of a new window
Reset == [remaining |-> Budget]

\* the limiter as configured, the clock at 0, nothing sent
LimiterInit ==
    /\ rateLimiter = Reset
    /\ now = 0
    /\ admitted = [t \in 0..MaxTime |-> 0]
    /\ waiting = NoSender

Guilds == 1..MaxGuilds
NoMarks == [id |-> 0, n |-> 0]

\* NewGuildCache(cacheFlags)
CacheInit(flags) ==
    /\ guildCache = [cacheFlags |-> flags, guilds |-> {}, unreadyGuilds |-> {},
                     unavailableGuilds |-> {}]
    /\ marked = NoMarks

\* New: the session before its first Open
GatewayInit ==
    /\ status = "Unconnected"
    /\ conn = Nil
    /\ connMu = NoOne
    /\ openPc = "-"
    /\ \E preset \in {Nil, 1} : sessionID = preset /\ lastSeq = preset
    /\ heartbeatTicker = Nil
    /\ heartbeat = [c \in Conns |-> "none"]
    /\ hbAcked = TRUE
    /\ autoReconnect \in BOOLEAN
    /\ connState = [c \in Conns |-> "free"]
    /\ listen = [c \in Conns |-> "none"]
    /\ hs = [c \in Conns |-> NoFrame]
    /\ reconnects = 0
    /\ wrote = NoFrame
    /\ returned = NoCall
    /\ due = "none"
    /\ heartbeatInterval = 0
    /\ tickerInterval = [c \in Conns |-> 0]

\* a session, and next to it a chunking manager that is not called
Init ==
    /\ ChunkingInit
    /\ shard = WithMembers
    /\ api = "chan"
    /\ CacheInit(TRUE)
    /\ LimiterInit
    /\ GatewayInit

\* ---- send ----------------------------------------------------------------
\* the outcomes of send under connMu: the nil check, then "err" from
\* RateLimiter.Wait (fails only when ctx can expire) or from
\* conn.WriteMessage (fails only on a connection that is closed or broke)
send(ctxExpires) ==
    IF conn = Nil THEN {"NotConnected"}
    ELSE {"ok"} \cup (IF ctxExpires \/ connState[conn] # "open" THEN {"err"}
                       ELSE {})

\* ---- CloseWithCode -------------------------------------------------------
IsGracefulAlways(code) == TRUE

IsGracefulOnlyNormal(code) == code = CloseNormalClosure

IsGraceful(code) == code = CloseNormalClosure \/ code = CloseGoingAway

\* the part of CloseWithCode outside connMu: stop the stored ticker
StopTicker ==
    IF heartbeatTicker # Nil
    THEN /\ heartbeat' = [heartbeat EXCEPT ![heartbeatTicker] = "none"]
         /\ heartbeatTicker' = Nil
    ELSE UNCHANGED <<heartbeat, heartbeatTicker>>

\* listen c is in NextReader
Reading(c) == listen[c] \in {"hello", "read"}

\* CloseWithCode(code) entered with resume data sid, seq: the ticker, the
\* close of the stored handle under connMu, the resume data.  A listen
\* blocked in NextReader on the closed handle gets net.ErrClosed, finds
\* g.conn != conn and returns without a write to the session (309-316):
\* its exit is taken with the close.
CloseWithCode(code, sid, seq) ==
    /\ StopTicker
    /\ IF conn # Nil
       THEN /\ connState' = [connState EXCEPT ![conn] = "closed"]
            /\ listen' = [listen EXCEPT ![conn] = IF Reading(conn) THEN "none" ELSE @]
            /\ conn' = Nil
            /\ sessionID' = IF IsGraceful(code) THEN Nil ELSE sid
            /\ lastSeq' = IF IsGraceful(code) THEN Nil ELSE seq
       ELSE /\ UNCHANGED <<connState, conn, listen>>
            /\ sessionID' = sid
            /\ lastSeq' = seq

\* ---- reconnect -----------------------------------------------------------
\* go g.reconnect(...): reconnectTry(0) checks its try limit, waits its zero
\* backoff and is then about to call Open
GoReconnect ==
    /\ reconnects < MaxRecons
    /\ reconnects' = IF 0 >= MaxReconnectTries - 1 THEN reconnects
                     ELSE reconnects + 1

\* ---- Open ----------------------------------------------------------------
\* Open by p up to the dial: take connMu, refuse when a handle is stored
OpenLock(p) ==
    /\ connMu = NoOne
    /\ IF conn # Nil
       THEN /\ returned' = IF p = User THEN Call("Open", 0, "AlreadyConnected")
                                        ELSE NoCall
            /\ UNCHANGED <<status, connMu, openPc, hbAcked>>
       ELSE /\ status' = "Connecting"
            /\ connMu' = p
            /\ openPc' = "dial"
            /\ hbAcked' = FALSE
            /\ returned' = NoCall
    /\ wrote' = NoFrame
    /\ UNCHANGED <<conn, sessionID, lastSeq, heartbeatTicker, heartbeat,
                   autoReconnect, connState, listen, hs, due>>
    /\ UNCHANGED <<chunkVars, cacheVars, timerVars, limiterVars>>

\* the dial succeeded: store the handle, reset the rate limiter, start
\* listen, release connMu
OpenDialOk ==
    /\ openPc = "dial"
    /\ FreeConns # {}
    /\ LET c == Min(FreeConns) IN
        /\ conn' = c
        /\ connState' = [connState EXCEPT ![c] = "open"]
        /\ listen' = [listen EXCEPT ![c] = "hello"]
    /\ status' = "WaitingForHello"
    /\ connMu' = NoOne
    /\ openPc' = "-"
    /\ returned' = IF connMu = User THEN Call("Open", 0, "nil") ELSE NoCall
    /\ wrote' = NoFrame
    /\ rateLimiter' = Reset
    /\ UNCHANGED <<sessionID, lastSeq, heartbeatTicker, heartbeat, hbAcked,
                   autoReconnect, hs, reconnects, due>>
    /\ UNCHANGED <<chunkVars, cacheVars, timerVars, now, admitted, waiting>>

\* the dial failed: Open calls g.Close while it holds connMu.  Close stops
\* the ticker and then waits for connMu: at "close" the caller has no
\* further step, connMu is released by its holder only
OpenDialFail ==
    /\ openPc = "dial"
    /\ StopTicker
    /\ openPc' = "close"
    /\ returned' = NoCall
    /\ wrote' = NoFrame
    /\ UNCHANGED <<status, conn, connMu, sessionID, lastSeq, hbAcked,
                   autoReconnect, connState, listen, hs, reconnects, due>>
    /\ UNCHANGED <<chunkVars, cacheVars, timerVars, limiterVars>>

\* a reconnect goroutine calls Open; nil and ErrGatewayAlreadyConnected
\* both end reconnectTry
ReconnectOpen ==
    /\ reconnects > 0
    /\ reconnects' = reconnects - 1
    /\ OpenLock(Reconnect)

\* ---- the caller of the public API ---------------------------------------
UserOpen ==
    /\ OpenLock(User)
    /\ UNCHANGED reconnects

UserCloseWithCode(code) ==
    /\ connMu = NoOne
    /\ CloseWithCode(code, sessionID, lastSeq)
    /\ returned' = IF conn # Nil THEN Call("CloseWithCode", code, "closed")
                   ELSE Call("CloseWithCode", 0, "-")
    /\ due' = IF due = "resume" /\ conn # Nil /\ IsGraceful(code)
              THEN "resume:closed" ELSE due
    /\ wrote' = NoFrame
    /\ UNCHANGED <<status, connMu, openPc, hbAcked, autoReconnect, hs,
                   reconnects>>
    /\ UNCHANGED <<chunkVars, cacheVars, timerVars, limiterVars>>

UserClose == UserCloseWithCode(CloseNormalClosure)

\* Send of an application command
UserSend ==
    /\ connMu = NoOne
    /\ \E res \in send(TRUE) :
        /\ wrote' = IF res = "ok" THEN Frame("Command", 0, 0) ELSE NoFrame
        /\ returned' = Call("Send", 0, res)
    /\ UNCHANGED <<status, conn, connMu, openPc, sessionID, lastSeq,
                   heartbeatTicker, heartbeat, hbAcked, autoReconnect,
                   connState, listen, hs, reconnects, due>>
    /\ UNCHANGED <<chunkVars, cacheVars, timerVars, limiterVars>>

\* ---- sendHeartbeat -------------------------------------------------------
\* sendHeartbeat with outcome res of its Send; op tells the heartbeat of a
\* tick ("Heartbeat") from the one the server asked for ("HeartbeatReply")
sendHeartbeat(op, res) ==
    /\ connMu = NoOne
    /\ res \in send(TRUE)
    /\ wrote' = IF res = "ok" THEN Frame(op, 0, lastSeq) ELSE NoFrame
    /\ IF res \in {"ok", "NotConnected"}
       THEN /\ hbAcked' = FALSE
            /\ UNCHANGED <<conn, connState, sessionID, lastSeq,
                           heartbeatTicker, heartbeat, reconnects, listen>>
       ELSE /\ hbAcked' = hbAcked
            /\ CloseWithCode(CloseServiceRestart, sessionID, lastSeq)
            /\ GoReconnect
    /\ returned' = NoCall
    /\ UNCHANGED <<status, connMu, openPc, autoReconnect, hs, due>>
    /\ UNCHANGED <<chunkVars, cacheVars, timerVars, limiterVars>>

\* ---- listen --------------------------------------------------------------
\* The server opens every connection with Hello and sends it once; frames
\* that fail to decode are dropped by listen without any change of state.
Helloed(c) == listen[c] \in {"handshake", "read"}

CanRead(c) == Reading(c) /\ connState[c] = "open"

MustIdentifyAlways(seq, sid) == TRUE

\* the choice of listen on Hello between identify() and resume()
MustIdentify(seq, sid) == seq = Nil \/ sid = Nil

\* Hello: start the heartbeat goroutine, then identify() or resume() up to
\* their Send
ListenHello(c) ==
    /\ CanRead(c)
    /\ ~Helloed(c)
    /\ hbAcked' = TRUE
    /\ heartbeat' = [heartbeat EXCEPT ![c] = "start"]
    /\ IF MustIdentify(lastSeq, sessionID)
       THEN /\ status' = "Identifying"
            /\ hs' = [hs EXCEPT ![c] = Frame("Identify", 0, 0)]
       ELSE /\ status' = "Resuming"
            /\ hs' = [hs EXCEPT ![c] = Frame("Resume", sessionID, lastSeq)]
    /\ listen' = [listen EXCEPT ![c] = "handshake"]
    /\ due' = IF due \in {"none", "resume:answered", "identify:answered"}
              THEN "none"
              ELSE IF due \in {"resume", "resume:closed"} THEN "resume:answered"
              ELSE "identify:answered"
    /\ wrote' = NoFrame
    /\ returned' = NoCall
    /\ UNCHANGED <<conn, connMu, openPc, sessionID, lastSeq, heartbeatTicker,
                   autoReconnect, connState, reconnects>>
    /\ UNCHANGED <<chunkVars, cacheVars, timerVars, limiterVars>>

\* the Send of identify() and resume() and what follows it
ListenHandshake(c) ==
    /\ listen[c] = "handshake"
    /\ connMu = NoOne
    /\ \E res \in send(FALSE) :
        wrote' = IF res = "ok" THEN hs[c] ELSE NoFrame
    /\ status' = IF hs[c].op = "Identify" THEN "WaitingForReady" ELSE status
    /\ listen' = [listen EXCEPT ![c] = "read"]
    /\ hs' = [hs EXCEPT ![c] = NoFrame]
    /\ returned' = NoCall
    /\ due' = IF due \in {"resume:answered", "identify:answered"} /\ conn = c
              THEN "none" ELSE due
    /\ UNCHANGED <<conn, connMu, openPc, sessionID, lastSeq, heartbeatTicker,
                   heartbeat, hbAcked, autoReconnect, connState, reconnects>>
    /\ UNCHANGED <<chunkVars, cacheVars, timerVars, limiterVars>>

SessionOfNone(c) == Nil

\* the session id the server gives in the Ready of connection c
SessionOf(c) == c

DispatchTypes == {"READY", "RESUMED", "MESSAGE_CREATE"}

\* Dispatch: store the sequence; on Ready store the session id, unless the
\* payload does not parse
ListenDispatch(c, t, s, parses) ==
    /\ CanRead(c)
    /\ Helloed(c)
    /\ lastSeq' = s
    /\ IF t = "READY" /\ parses
       THEN sessionID' = SessionOf(c) /\ status' = "Ready"
       ELSE UNCHANGED <<sessionID, status>>
    /\ wrote' = NoFrame
    /\ returned' = IF t = "READY" /\ ~parses THEN NoCall
                   ELSE Call("eventHandlerFunc", s, t)
    /\ UNCHANGED <<conn, connMu, openPc, heartbeatTicker, heartbeat, hbAcked,
                   autoReconnect, connState, listen, hs, reconnects, due>>
    /\ UNCHANGED <<chunkVars, cacheVars, timerVars, limiterVars>>

\* opcode Heartbeat: the server asks for a heartbeat
ListenHeartbeat(c) ==
    /\ CanRead(c)
    /\ Helloed(c)
    /\ \E res \in send(TRUE) : sendHeartbeat("HeartbeatReply", res)

\* opcode Reconnect
ListenReconnect(c) ==
    /\ CanRead(c)
    /\ Helloed(c)
    /\ connMu = NoOne
    /\ CloseWithCode(CloseServiceRestart, sessionID, lastSeq)
    /\ GoReconnect
    /\ due' = "none"
    /\ wrote' = NoFrame
    /\ returned' = NoCall
    /\ UNCHANGED <<status, connMu, openPc, hbAcked, autoReconnect, hs>>
    /\ UNCHANGED <<chunkVars, cacheVars, timerVars, limiterVars>>

\* opcode InvalidSession
ListenInvalidSession(c, canResume) ==
    /\ CanRead(c)
    /\ Helloed(c)
    /\ connMu = NoOne
    /\ IF canResume
       THEN CloseWithCode(CloseServiceRestart, sessionID, lastSeq)
       ELSE CloseWithCode(CloseNormalClosure, Nil, Nil)
    /\ GoReconnect
    /\ due' = IF canResume THEN "none" ELSE "identify"
    /\ wrote' = NoFrame
    /\ returned' = NoCall
    /\ UNCHANGED <<status, connMu, openPc, hbAcked, autoReconnect, hs>>
    /\ UNCHANGED <<chunkVars, cacheVars, timerVars, limiterVars>>

\* opcode HeartbeatACK
ListenHeartbeatACK(c) ==
    /\ CanRead(c)
    /\ Helloed(c)
    /\ hbAcked' = TRUE
    /\ wrote' = NoFrame
    /\ returned' = NoCall
    /\ UNCHANGED <<status, conn, connMu, openPc, sessionID, lastSeq,
                   heartbeatTicker, heartbeat, autoReconnect, connState,
                   listen, hs, reconnects, due>>
    /\ UNCHANGED <<chunkVars, cacheVars, timerVars, limiterVars>>

\* what a close of the stored handle with read error e asks of the next
\* handshake
DueAfter(e) ==
    IF e = GatewayCloseEventCodeInvalidSeq THEN "identify"
    ELSE IF e \in ServerCloseCodes
    THEN (IF ShouldReconnect(e) /\ sessionID # Nil /\ lastSeq # Nil
          THEN "resume" ELSE "none")
    ELSE (IF due \in {"resume", "resume:closed", "identify"} THEN due ELSE "none")

ClearsResumeDataNever(e) == FALSE

\* the close code on which listen drops the resume data
ClearsResumeData(e) == e = GatewayCloseEventCodeInvalidSeq

\* whether listen reconnects after read error e
ReconnectAfter(e) ==
    IF e \in ServerCloseCodes THEN ShouldReconnect(e) ELSE e # "NetClosed"

SameConnectionAlways(c) == TRUE

\* sameConnection of listen c, read under connMu
SameConnection(c) == conn = c

\* NextReader fails with e -- the server closed with a code or the
\* transport broke, or the handle was closed on our side -- and the
\* read-error branch of listen: sameConnection under connMu, then the
\* reconnect policy
ListenReadError(c, e) ==
    /\ Reading(c)
    /\ connMu = NoOne
    /\ \/ connState[c] = "open" /\ e # "NetClosed"
       \/ connState[c] = "closed" /\ e = "NetClosed"
    /\ IF ~SameConnection(c)
       THEN /\ listen' = [listen EXCEPT ![c] = "none"]
            /\ UNCHANGED <<conn, connState, sessionID, lastSeq, heartbeatTicker,
                           heartbeat, reconnects>>
       ELSE IF autoReconnect /\ ReconnectAfter(e)
       THEN /\ GoReconnect
            /\ connState' = [connState EXCEPT ![c] = e]
            /\ listen' = [listen EXCEPT ![c] = "none"]
            /\ IF ClearsResumeData(e)
               THEN sessionID' = Nil /\ lastSeq' = Nil
               ELSE UNCHANGED <<sessionID, lastSeq>>
            /\ UNCHANGED <<conn, heartbeatTicker, heartbeat>>
       ELSE \* g.Close, then go g.closeHandlerFunc(g, err)
            /\ CloseWithCode(CloseNormalClosure, sessionID, lastSeq)
            /\ UNCHANGED reconnects
    /\ due' = IF conn # c THEN due ELSE DueAfter(e)
    /\ wrote' = NoFrame
    /\ returned' = IF SameConnection(c) /\ ~(autoReconnect /\ ReconnectAfter(e))
                   THEN Call("closeHandlerFunc", 0, e) ELSE NoCall
    /\ UNCHANGED <<status, connMu, openPc, hbAcked, autoReconnect, hs>>
    /\ UNCHANGED <<chunkVars, cacheVars, timerVars, limiterVars>>

\* ---- heartbeat -----------------------------------------------------------
\* heartbeat(): create the ticker and store it in g.heartbeatTicker
HeartbeatStart(c) ==
    /\ heartbeat[c] = "start"
    /\ heartbeatTicker' = c
    /\ heartbeat' = [heartbeat EXCEPT ![c] = "running"]
    /\ wrote' = NoFrame
    /\ returned' = NoCall
    /\ UNCHANGED <<status, conn, connMu, openPc, sessionID, lastSeq, hbAcked,
                   autoReconnect, connState, listen, hs, reconnects, due>>
    /\ UNCHANGED <<chunkVars, cacheVars, timerVars, limiterVars>>

\* the ticker fires: sendHeartbeat
HeartbeatTick(c) ==
    /\ heartbeat[c] = "running"
    /\ \E res \in send(TRUE) : sendHeartbeat("Heartbeat", res)

\* ---- specification -------------------------------------------------------
UserStep ==
    \/ UserOpen
    \/ UserClose
    \/ \E code \in UserCloseCodes \ {CloseNormalClosure} : UserCloseWithCode(code)
    \/ UserSend

ServerStep ==
    \E c \in Conns :
        \/ ListenHello(c)
        \/ \E t \in DispatchTypes, s \in 1..MaxSeq :
              \E parses \in (IF t = "READY" THEN BOOLEAN ELSE {TRUE}) :
                  ListenDispatch(c, t, s, parses)
        \/ ListenHeartbeat(c)
        \/ ListenReconnect(c)
        \/ \E b \in BOOLEAN : ListenInvalidSession(c, b)
        \/ ListenHeartbeatACK(c)
        \/ \E e \in ReadErrors : ListenReadError(c, e)

GoroutineStep ==
    \/ \E c \in Conns : ListenHandshake(c) \/ HeartbeatStart(c) \/ HeartbeatTick(c)
    \/ ReconnectOpen
    \/ OpenDialOk
    \/ OpenDialFail

Next == UserStep \/ ServerStep \/ GoroutineStep

Spec == Init /\ [][Next]_vars

\* ---- member chunking manager ---------------------------------------------
\* HandleChunk is called by the flow that delivers the events, one call at a
\* time; requestGuildMembersChan and the cancel functions are called by any
\* number of callers.  A step runs to the next point where its goroutine can
\* block on another one: the send to a sink, and the lock of
\* chunkingRequestsMu that follows the close in cleanupRequest.
MemberSet == {"a", "b"}

\* the member lists of the payloads
MemberLists == {<<>>, <<"b", "a">>}

\* memberFilterFunc is any predicate of the caller: pass is the set of
\* members it lets through in one HandleChunk, MemberSet for a nil filter
Filters == SUBSET MemberSet

PassesAll(pass, m) == TRUE

\* request.memberFilterFunc == nil || request.memberFilterFunc(member)
Passes(pass, m) == m \in pass

Payload(n, i, cnt, ms, pass) ==
    [nonce |-> n, index |-> i, count |-> cnt, all |-> ms, members |-> ms,
     sent |-> <<>>, pass |-> pass]

\* the member loop from ms on up to its next send: the members from the
\* first one that passes the filter
RECURSIVE Skip(_, _)
Skip(ms, pass) ==
    IF ms = <<>> \/ Passes(pass, Head(ms)) THEN ms ELSE Skip(Tail(ms), pass)

\* the members that this part of the loop puts in the cache: every one it
\* looks at, the one it goes on to send included
Puts(ms, pass) ==
    LET n == Len(ms) - Len(Skip(ms, pass))
    IN {ms[k] : k \in 1..(IF n < Len(ms) THEN n + 1 ELSE n)}

\* close(request.memberChan)
CloseSink(r) ==
    IF memberChan[r] = "closed"
    THEN /\ panicked' = "close of closed channel"
         /\ UNCHANGED memberChan
    ELSE /\ memberChan' = [memberChan EXCEPT ![r] = "closed"]
         /\ UNCHANGED panicked

cleanupDeleteNothing(r) == chunkingRequests

\* delete(m.chunkingRequests, request.nonce) under chunkingRequestsMu
cleanupDelete(r) == [chunkingRequests EXCEPT ![nonce[r]] = NoRequest]

MissingNever(s) == FALSE

\* shard.GatewayIntents().Missing(discord.GatewayIntentGuildMembers)
Missing(s) == s = WithoutMembers

\* requestGuildMembersChan returns an error before it makes a request: the
\* one of the shard lookup, or ErrNoGuildMembersIntent
ReqRefuse(r) ==
    /\ panicked = "-"
    /\ reqPc[r] = "idle"
    /\ \A q \in Reqs : q < r => reqPc[q] # "idle"
    /\ IF shard = NoShard
       THEN reqPc' = [reqPc EXCEPT ![r] = "ShardErr"]
       ELSE /\ Missing(shard)
            /\ reqPc' = [reqPc EXCEPT ![r] = "ErrNoGuildMembersIntent"]
    /\ received' = NoDelivery
    /\ hOut' = NoOut
    /\ UNCHANGED <<chunkingRequests, nonce, chunks, memberChan, members,
                   hPc, hPayload, hRequest, panicked>>
    /\ UNCHANGED <<gathered, configVars, gatewayVars, cacheVars, timerVars, limiterVars>>

\* the nonce loop: draw a nonce until one is found that is not in the map
ReqNonce(r, n) ==
    /\ panicked = "-"
    /\ reqPc[r] = "idle"
    /\ \A q \in Reqs : q < r => reqPc[q] # "idle"
    /\ shard # NoShard
    /\ ~Missing(shard)
    /\ chunkingRequests[n] = NoRequest
    /\ nonce' = [nonce EXCEPT ![r] = n]
    /\ reqPc' = [reqPc EXCEPT ![r] = "checked"]
    /\ received' = NoDelivery
    /\ hOut' = NoOut
    /\ UNCHANGED <<chunkingRequests, chunks, memberChan, members,
                   hPc, hPayload, hRequest, panicked>>
    /\ UNCHANGED <<gathered, configVars, gatewayVars, cacheVars, timerVars, limiterVars>>

\* make the sink and the request, store the request under its nonce, send
\* the command and return sink, cancel function and the result res of
\* shard.Send to the caller; requestGuildMembers returns an error of
\* requestGuildMembersChan as it is
ReqInsert(r, res) ==
    /\ panicked = "-"
    /\ reqPc[r] = "checked"
    /\ memberChan' = [memberChan EXCEPT ![r] = "open"]
    /\ chunkingRequests' = [chunkingRequests EXCEPT ![nonce[r]] = r]
    /\ reqPc' = [reqPc EXCEPT ![r] = IF api = "gather" /\ res = "err"
                                     THEN "SendErr" ELSE "open"]
    /\ received' = NoDelivery
    /\ hOut' = NoOut
    /\ UNCHANGED <<nonce, chunks, members, hPc, hPayload,
                   hRequest, panicked>>
    /\ UNCHANGED <<gathered, configVars, gatewayVars, cacheVars, timerVars, limiterVars>>

\* the cancel function of r: cleanupRequest up to its close
CancelClose(r) ==
    /\ panicked = "-"
    /\ reqPc[r] = "open"
    /\ CloseSink(r)
    /\ reqPc' = [reqPc EXCEPT ![r] = "closing"]
    /\ received' = NoDelivery
    /\ hOut' = NoOut
    /\ UNCHANGED <<chunkingRequests, nonce, chunks, members,
                   hPc, hPayload, hRequest>>
    /\ UNCHANGED <<gathered, configVars, gatewayVars, cacheVars, timerVars, limiterVars>>

\* the cancel function of r: the delete of cleanupRequest and the return
CancelDelete(r) ==
    /\ panicked = "-"
    /\ reqPc[r] = "closing"
    /\ chunkingRequests' = cleanupDelete(r)
    /\ reqPc' = [reqPc EXCEPT ![r] = "cancelled"]
    /\ received' = NoDelivery
    /\ hOut' = NoOut
    /\ UNCHANGED <<nonce, chunks, memberChan, members, hPc,
                   hPayload, hRequest, panicked>>
    /\ UNCHANGED <<gathered, configVars, gatewayVars, cacheVars, timerVars, limiterVars>>

\* HandleChunk for request r with pl.members left: wait in the send of the
\* next member; after the last one, on request.chunks == ChunkCount-1 the
\* close of cleanupRequest, else count the chunk and return
Continue(r, pl) ==
    IF pl.members # <<>>
    THEN /\ hPc' = "send"
         /\ hPayload' = pl
         /\ hRequest' = r
         /\ hOut' = NoOut
         /\ UNCHANGED <<chunks, memberChan, panicked>>
    ELSE IF chunks[r] = pl.count - 1
    THEN /\ CloseSink(r)
         /\ hPc' = "delete"
         /\ hPayload' = pl
         /\ hRequest' = r
         /\ hOut' = NoOut
         /\ UNCHANGED chunks
    ELSE /\ chunks' = [chunks EXCEPT ![r] = @ + 1]
         /\ hPc' = "idle"
         /\ hPayload' = NoPayload
         /\ hRequest' = NoRequest
         /\ hOut' = [res |-> "returned", nonce |-> pl.nonce]
         /\ UNCHANGED <<memberChan, panicked>>

LookupFirst(n) == IF chunkingRequests[n] = NoRequest THEN 1 ELSE chunkingRequests[n]

\* request, ok := m.chunkingRequests[payload.Nonce] under the read lock
Lookup(n) == chunkingRequests[n]

\* HandleChunk(payload): the lookup under the read lock -- an unknown nonce
\* ends the call -- and the member loop up to its first send
HandleChunk(n, i, cnt, ms, pass) ==
    /\ panicked = "-"
    /\ hPc = "idle"
    /\ IF Lookup(n) = NoRequest
       THEN /\ hOut' = [res |-> "miss", nonce |-> n]
            /\ UNCHANGED <<hPc, hPayload, hRequest, chunks, memberChan,
                           members, panicked>>
       ELSE LET r == Lookup(n) IN
            /\ chunks[r] < cnt
            /\ members' = members \cup Puts(ms, pass)
            /\ Continue(r, [Payload(n, i, cnt, ms, pass)
                               EXCEPT !.members = Skip(ms, pass)])
    /\ received' = NoDelivery
    /\ UNCHANGED <<chunkingRequests, reqPc, nonce>>
    /\ UNCHANGED <<gathered, configVars, gatewayVars, cacheVars, timerVars, limiterVars>>

\* request.memberChan <- member: the sink has no buffer, the send waits for
\* the caller to receive; a send on a closed sink panics.  Then the member
\* loop up to its next send
HandleChunkSend ==
    /\ panicked = "-"
    /\ hPc = "send"
    /\ IF memberChan[hRequest] = "closed"
       THEN /\ panicked' = "send on closed channel"
            /\ received' = NoDelivery
            /\ hOut' = NoOut
            /\ UNCHANGED <<hPayload, hPc, hRequest, chunks, memberChan,
                           members>>
       ELSE LET rest == Tail(hPayload.members) IN
            /\ reqPc[hRequest] = "open"
            /\ received' = [to |-> hRequest, member |-> Head(hPayload.members)]
            /\ members' = members \cup Puts(rest, hPayload.pass)
            /\ Continue(hRequest,
                        [hPayload EXCEPT !.members = Skip(rest, hPayload.pass),
                                         !.sent = Append(@, Head(hPayload.members))])
    /\ gathered' = IF api = "gather" /\ memberChan[hRequest] # "closed"
                   THEN [gathered EXCEPT ![hRequest] = Append(@, Head(hPayload.members))]
                   ELSE gathered
    /\ UNCHANGED <<chunkingRequests, reqPc, nonce>>
    /\ UNCHANGED <<configVars, gatewayVars, cacheVars, timerVars, limiterVars>>

\* the delete of cleanupRequest, and the return of HandleChunk
HandleChunkDelete ==
    /\ panicked = "-"
    /\ hPc = "delete"
    /\ chunkingRequests' = cleanupDelete(hRequest)
    /\ hPc' = "idle"
    /\ hPayload' = NoPayload
    /\ hRequest' = NoRequest
    /\ hOut' = [res |-> "returned", nonce |-> hPayload.nonce]
    /\ received' = NoDelivery
    /\ UNCHANGED <<reqPc, nonce, chunks, memberChan, members,
                   panicked>>
    /\ UNCHANGED <<gathered, configVars, gatewayVars, cacheVars, timerVars, limiterVars>>

\* requestGuildMembers finds its sink closed and returns its members
GatherReturn(r) ==
    /\ panicked = "-"
    /\ api = "gather"
    /\ reqPc[r] = "open"
    /\ memberChan[r] = "closed"
    /\ reqPc' = [reqPc EXCEPT ![r] = "returned"]
    /\ received' = NoDelivery
    /\ hOut' = NoOut
    /\ UNCHANGED <<chunkingRequests, nonce, chunks, memberChan, members,
                   hPc, hPayload, hRequest, panicked>>
    /\ UNCHANGED <<gathered, configVars, gatewayVars, cacheVars, timerVars, limiterVars>>

\* the payloads that differ in what HandleChunk does with them: count,
\* index and filter are not read for a nonce that is not in the map, and
\* the filter is not called for a payload without members
Counts(n) == IF chunkingRequests[n] = NoRequest THEN {1} ELSE 1..MaxChunks
FiltersFor(n, ms) ==
    IF chunkingRequests[n] = NoRequest \/ ms = <<>> THEN {MemberSet} ELSE Filters

\* the event flow calls HandleChunk with one of these payloads, one call at
\* a time
OnChunk(n, i, cnt, ms, pass) ==
    /\ hPc = "idle"
    /\ panicked = "-"
    /\ cnt \in Counts(n)
    /\ pass \in FiltersFor(n, ms)
    /\ HandleChunk(n, i, cnt, ms, pass)

\* the chunks the server sends: of cnt chunks the first or the last, and
\* for one request never more chunks than the count they carry
ChunkingNext ==
    \/ \E r \in Reqs :
          \/ ReqRefuse(r)
          \/ \E n \in Nonces : ReqNonce(r, n)
          \/ \E res \in SendResults : ReqInsert(r, res)
          \/ CancelClose(r)
          \/ CancelDelete(r)
    \/ \E n \in Nonces, cnt \in 1..MaxChunks, ms \in MemberLists :
          \E i \in {0, cnt - 1}, pass \in Filters : OnChunk(n, i, cnt, ms, pass)
    \/ HandleChunkSend
    \/ HandleChunkDelete

\* the chunking manager next to a session that is never opened; its
\* callers use entry point a
ChunkingStartWith(a) ==
    /\ ChunkingInit
    /\ shard \in Shards
    /\ api = a
    /\ CacheInit(TRUE)
    /\ LimiterInit
    /\ GatewayInit
    /\ ~autoReconnect
    /\ sessionID = Nil

ChunkingStart == ChunkingStartWith("chan")

ChunkingSpec == ChunkingStart /\ [][ChunkingNext]_vars

\* the callers use requestGuildMembers: the cancel function is called by
\* requestGuildMembers itself, when ctx is done
GatherReqs == 1..MaxGathers

GatherNext ==
    \/ \E r \in GatherReqs :
          \/ ReqRefuse(r)
          \/ \E n \in Nonces : ReqNonce(r, n)
          \/ \E res \in SendResults : ReqInsert(r, res)
          \/ CancelClose(r)
          \/ CancelDelete(r)
          \/ GatherReturn(r)
    \/ \E n \in Nonces, cnt \in 1..MaxChunks, ms \in MemberLists :
          \E i \in {0, cnt - 1}, pass \in Filters : OnChunk(n, i, cnt, ms, pass)
    \/ HandleChunkSend
    \/ HandleChunkDelete

GatherStart == ChunkingStartWith("gather")

GatherSpec == GatherStart /\ [][GatherNext]_vars

\* the caller of requestGuildMembersChan stops receiving from the sink it
\* was given and never calls its cancel function: nothing in the manager
\* makes it do either
StopReading(r) ==
    /\ panicked = "-"
    /\ reqPc[r] = "open"
    /\ reqPc' = [reqPc EXCEPT ![r] = "abandoned"]
    /\ received' = NoDelivery
    /\ hOut' = NoOut
    /\ UNCHANGED <<chunkingRequests, nonce, chunks, memberChan, members,
                   hPc, hPayload, hRequest, panicked>>
    /\ UNCHANGED <<gathered, configVars, gatewayVars, cacheVars, timerVars, limiterVars>>

ReaderNext ==
    \/ ChunkingNext
    \/ \E r \in Reqs : StopReading(r)

\* a HandleChunk that can take its next step takes it: its goroutine is
\* scheduled whenever the send or the delete it stands in can proceed
HandleChunkRuns ==
    /\ WF_vars(HandleChunkSend)
    /\ WF_vars(HandleChunkDelete)

ReaderSpec == ChunkingStart /\ [][ReaderNext]_vars /\ HandleChunkRuns

\* ---- guild cache ---------------------------------------------------------
\* Every call takes the lock of the map it changes for its whole body: a
\* call is one step.
\* Set(guild): nothing without CacheFlagGuilds
Set(id) ==
    /\ guildCache' = IF ~guildCache.cacheFlags THEN guildCache
                     ELSE [guildCache EXCEPT !.guilds = @ \cup {id}]
    /\ marked' = NoMarks
    /\ UNCHANGED <<gatewayVars, chunkVars, limiterVars, timerVars>>

Remove(id) ==
    /\ guildCache' = [guildCache EXCEPT !.guilds = @ \ {id}]
    /\ marked' = NoMarks
    /\ UNCHANGED <<gatewayVars, chunkVars, limiterVars, timerVars>>

SetReady(id) ==
    /\ guildCache' = [guildCache EXCEPT !.unreadyGuilds = @ \ {id}]
    /\ marked' = IF marked = [id |-> id, n |-> 2] THEN [id |-> id, n |-> 3]
                 ELSE NoMarks
    /\ UNCHANGED <<gatewayVars, chunkVars, limiterVars, timerVars>>

SetUnready(id) ==
    /\ guildCache' = [guildCache EXCEPT !.unreadyGuilds = @ \cup {id}]
    /\ marked' = IF marked = [id |-> id, n |-> 1] THEN [id |-> id, n |-> 2]
                 ELSE NoMarks
    /\ UNCHANGED <<gatewayVars, chunkVars, limiterVars, timerVars>>

\* SetUnavailable(id): c.Remove(id), then the insert
SetUnavailable(id) ==
    /\ guildCache' = [guildCache EXCEPT !.guilds = @ \ {id},
                                        !.unavailableGuilds = @ \cup {id}]
    /\ marked' = [id |-> id, n |-> 1]
    /\ UNCHANGED <<gatewayVars, chunkVars, limiterVars, timerVars>>

SetAvailable(id) ==
    /\ guildCache' = [guildCache EXCEPT !.unavailableGuilds = @ \ {id}]
    /\ marked' = NoMarks
    /\ UNCHANGED <<gatewayVars, chunkVars, limiterVars, timerVars>>

\* gatewayHandlerReady.HandleGatewayEvent: SetUnready for every guild of the
\* Ready event
HandleGatewayEvent(ids) ==
    /\ guildCache' = [guildCache EXCEPT !.unreadyGuilds = @ \cup ids]
    /\ marked' = NoMarks
    /\ UNCHANGED <<gatewayVars, chunkVars, limiterVars, timerVars>>

CacheNext ==
    \/ \E id \in Guilds :
          \/ Set(id)
          \/ Remove(id)
          \/ SetReady(id)
          \/ SetUnready(id)
          \/ SetUnavailable(id)
          \/ SetAvailable(id)
    \/ \E ids \in SUBSET Guilds : HandleGatewayEvent(ids)

\* a guild cache with either cache flags, next to a session and a chunking
\* manager that are not used
CacheStart ==
    /\ \E flags \in BOOLEAN : CacheInit(flags)
    /\ LimiterInit
    /\ ChunkingInit
    /\ shard = WithMembers
    /\ api = "chan"
    /\ GatewayInit
    /\ ~autoReconnect
    /\ sessionID = Nil

CacheSpec == CacheStart /\ [][CacheNext]_vars

\* ---- rate limited send ---------------------------------------------------
\* The limiter counts the slots of a fixed window and a timer starts the
\* next window; Wait blocks while the window has no slot left.  send holds
\* connMu from its nil check to its return, across Wait.
\* Wait returns at once
HasSlot == rateLimiter.remaining > 0

\* the slot is taken and the frame written at the tick of the clock
Admit ==
    /\ rateLimiter' = [rateLimiter EXCEPT !.remaining = @ - 1]
    /\ admitted' = [admitted EXCEPT ![now] = @ + 1]
    /\ wrote' = Frame("Command", 0, 0)
    /\ returned' = Call("Send", 0, "ok")

\* the clock ticks; the timer of the limiter starts a window every Window
\* ticks
Tick ==
    /\ now < MaxTime
    /\ now' = now + 1
    /\ rateLimiter' = IF (now + 1) % Window = 0 THEN Reset ELSE rateLimiter
    /\ wrote' = NoFrame
    /\ returned' = NoCall
    /\ UNCHANGED <<status, conn, connMu, openPc, sessionID, lastSeq,
                   heartbeatTicker, heartbeat, hbAcked, autoReconnect,
                   connState, listen, hs, reconnects, due>>
    /\ UNCHANGED <<admitted, waiting, chunkVars, cacheVars, timerVars>>

LockedNever == FALSE

\* g.connMu is held: send, CloseWithCode and Open wait for it
Locked == connMu # NoOne

\* Send of sender p up to its return or to the block in Wait
LimitedSend(p) ==
    /\ ~Locked
    /\ IF conn = Nil
       THEN /\ returned' = Call("Send", 0, "NotConnected")
            /\ wrote' = NoFrame
            /\ UNCHANGED <<connMu, limiterVars>>
       ELSE IF HasSlot
       THEN /\ Admit
            /\ UNCHANGED <<connMu, now, waiting>>
       ELSE /\ connMu' = Sender
            /\ waiting' = p
            /\ wrote' = NoFrame
            /\ returned' = NoCall
            /\ UNCHANGED <<rateLimiter, now, admitted>>
    /\ UNCHANGED <<status, conn, openPc, sessionID, lastSeq, heartbeatTicker,
                   heartbeat, hbAcked, autoReconnect, connState, listen, hs,
                   reconnects, due>>
    /\ UNCHANGED <<chunkVars, cacheVars, timerVars>>

\* the Wait of p ends with a slot: the write, Unlock, the return
WaitEnds(p) ==
    /\ waiting = p
    /\ HasSlot
    /\ Admit
    /\ connMu' = NoOne
    /\ waiting' = NoSender
    /\ UNCHANGED <<status, conn, openPc, sessionID, lastSeq, heartbeatTicker,
                   heartbeat, hbAcked, autoReconnect, connState, listen, hs,
                   reconnects, due>>
    /\ UNCHANGED <<now, chunkVars, cacheVars, timerVars>>

\* the Wait of p ends with the error of its ctx
WaitCancelled(p) ==
    /\ waiting = p
    /\ connMu' = NoOne
    /\ waiting' = NoSender
    /\ wrote' = NoFrame
    /\ returned' = Call("Send", 0, "err")
    /\ UNCHANGED <<status, conn, openPc, sessionID, lastSeq, heartbeatTicker,
                   heartbeat, hbAcked, autoReconnect, connState, listen, hs,
                   reconnects, due>>
    /\ UNCHANGED <<rateLimiter, now, admitted, chunkVars, cacheVars, timerVars>>

\* a session that is opened once, the clock, and the senders
LimiterNext ==
    \/ UserOpen
    \/ OpenDialOk
    \/ Tick
    \/ \E p \in Senders :
          \/ LimitedSend(p)
          \/ WaitEnds(p)
          \/ WaitCancelled(p)

LimiterStart == Init /\ ~autoReconnect /\ sessionID = Nil

LimiterSpec == LimiterStart /\ [][LimiterNext]_vars

\* the senders next to a caller that closes and reopens the session
SenderNext ==
    \/ LimiterNext
    \/ \E code \in UserCloseCodes : UserCloseWithCode(code)

SenderSpec == LimiterStart /\ [][SenderNext]_vars

\* ---- the interval of the heartbeat ----------------------------------------
\* The session above leaves the interval out, its ticks come at any time.
\* Here the Hello branch of listen is taken statement by statement next to
\* the heartbeat goroutine it starts: go g.heartbeat() (365), the store of
\* the interval (367), identify() or resume(); heartbeat() reads the
\* interval when it creates its ticker (240).

\* the interval the Hello of connection c carries
IntervalOf(c) == c

\* Hello, up to go g.heartbeat()
HelloGo(c) ==
    /\ CanRead(c)
    /\ ~Helloed(c)
    /\ hbAcked' = TRUE
    /\ heartbeat' = [heartbeat EXCEPT ![c] = "start"]
    /\ listen' = [listen EXCEPT ![c] = "interval"]
    /\ wrote' = NoFrame
    /\ returned' = NoCall
    /\ UNCHANGED <<status, conn, connMu, openPc, sessionID, lastSeq,
                   heartbeatTicker, autoReconnect, connState, hs, reconnects,
                   due>>
    /\ UNCHANGED <<chunkVars, cacheVars, limiterVars, timerVars>>

\* Hello, from the store of the interval to the Send of identify() or
\* resume()
HelloStore(c) ==
    /\ listen[c] = "interval"
    /\ heartbeatInterval' = IntervalOf(c)
    /\ IF MustIdentify(lastSeq, sessionID)
       THEN /\ status' = "Identifying"
            /\ hs' = [hs EXCEPT ![c] = Frame("Identify", 0, 0)]
       ELSE /\ status' = "Resuming"
            /\ hs' = [hs EXCEPT ![c] = Frame("Resume", sessionID, lastSeq)]
    /\ listen' = [listen EXCEPT ![c] = "handshake"]
    /\ wrote' = NoFrame
    /\ returned' = NoCall
    /\ UNCHANGED <<conn, connMu, openPc, sessionID, lastSeq, heartbeatTicker,
                   heartbeat, hbAcked, autoReconnect, connState, reconnects,
                   due>>
    /\ UNCHANGED <<tickerInterval, chunkVars, cacheVars, limiterVars>>

\* heartbeat(): time.NewTicker(g.heartbeatInterval), which panics on an
\* interval that is not positive, and the store of the ticker
NewTicker(c) ==
    /\ heartbeat[c] = "start"
    /\ tickerInterval' = [tickerInterval EXCEPT ![c] = heartbeatInterval]
    /\ IF heartbeatInterval <= 0
       THEN /\ heartbeat' = [heartbeat EXCEPT ![c] = "panic"]
            /\ UNCHANGED heartbeatTicker
       ELSE /\ heartbeat' = [heartbeat EXCEPT ![c] = "running"]
            /\ heartbeatTicker' = c
    /\ wrote' = NoFrame
    /\ returned' = NoCall
    /\ UNCHANGED <<status, conn, connMu, openPc, sessionID, lastSeq, hbAcked,
                   autoReconnect, connState, listen, hs, reconnects, due>>
    /\ UNCHANGED <<heartbeatInterval, chunkVars, cacheVars, limiterVars>>

\* a session that the caller opens and closes, its Hellos and heartbeats
HelloNext ==
    \/ UserOpen
    \/ OpenDialOk
    \/ \E code \in UserCloseCodes : UserCloseWithCode(code)
    \/ \E c \in Conns : HelloGo(c) \/ HelloStore(c) \/ NewTicker(c) \/ ListenHandshake(c)

HelloStart == Init /\ ~autoReconnect

HelloSpec == HelloStart /\ [][HelloNext]_vars

\* ---- properties ----------------------------------------------------------
StatusOrder ==
    {<<"Connecting", "WaitingForHello">>, <<"WaitingForHello", "Identifying">>,
     <<"WaitingForHello", "Resuming">>, <<"Identifying", "WaitingForReady">>,
     <<"Resuming", "WaitingForReady">>, <<"WaitingForReady", "Ready">>}

\* listen c answers a Hello in this step
HelloStep(c) == listen[c] = "hello" /\ listen'[c] = "handshake"

\* C1: every change of Status follows the order Connecting, WaitingForHello,
\* Identifying or Resuming, WaitingForReady, Ready without skipping a state;
\* only Open (to Connecting) and the terminal Disconnected leave the order.
C1_StatusFollowsOrder ==
    [][status' # status =>
          \/ <<status, status'>> \in StatusOrder
          \/ status' \in {"Connecting", "Disconnected"}]_vars

\* C2 as stated: after the server closed the connection with a
\* resume-eligible code while token and sequence were stored, the handshake
\* of the next connection sends Resume with the stored token and sequence.
C2_ResumeAfterResumableClose ==
    [][\A c \in Conns :
          (HelloStep(c) /\ due \in {"resume", "resume:closed"}) =>
              /\ sessionID # Nil /\ lastSeq # Nil
              /\ hs'[c] = Frame("Resume", sessionID, lastSeq)]_vars

\* C2 amended: with auto-reconnect enabled and no graceful close by the
\* caller in between, token and sequence stay as stored from the
\* resume-eligible close to the next Hello, and that Hello is answered with
\* Resume carrying them.
C2_ResumeWhenAutoReconnect ==
    [][autoReconnect =>
          /\ (due = "resume" /\ due' = "resume") =>
                 (sessionID' = sessionID /\ lastSeq' = lastSeq /\ sessionID # Nil
                  /\ lastSeq # Nil)
          /\ \A c \in Conns :
                (HelloStep(c) /\ due = "resume") =>
                    /\ sessionID # Nil /\ lastSeq # Nil
                    /\ hs'[c] = Frame("Resume", sessionID, lastSeq)]_vars

C2_Witness ==
    /\ autoReconnect
    /\ due = "resume:answered"
    /\ \E c \in Conns : c = conn /\ listen[c] = "handshake" /\ hs[c].op = "Resume"
                        /\ hs[c].sid = sessionID /\ hs[c].seq = lastSeq

\* C3: from a non-resumable close (close code InvalidSeq, or InvalidSession
\* with resumable=false) on, token and sequence are absent -- also when a
\* reconnect attempt calls Open -- and the next Hello is answered with
\* Identify.
C3_NonResumableCloseClears ==
    [][/\ due' = "identify" => (sessionID' = Nil /\ lastSeq' = Nil)
       /\ \A c \in Conns :
             (HelloStep(c) /\ due = "identify") => hs'[c] = Frame("Identify", 0, 0)]_vars

C3_Witness ==
    /\ autoReconnect
    /\ due = "identify:answered"
    /\ \E c \in Conns : c = conn /\ listen[c] = "handshake" /\ hs[c].op = "Identify"

\* no goroutine of the session has a step left: none is about to call Open,
\* in a dial or a handshake, and no heartbeat can start or tick
AtRest ==
    /\ reconnects = 0
    /\ openPc = "-"
    /\ \A c \in Conns : listen[c] # "handshake" /\ heartbeat[c] \notin {"start", "running"}

\* C4: after the server closed the connection with a code that permits
\* reconnect, with auto-reconnect enabled, the session opens a new
\* connection: its goroutines never come to rest with the handle that the
\* server closed still stored.
C4_ReconnectsAfterServerClose ==
    \A c \in Conns :
        (autoReconnect /\ conn = c /\ connState[c] \in ServerCloseCodes) => ~AtRest

\* C5: an Open whose dial failed returns; it never waits in Close for the
\* connMu that it holds itself.
C5_OpenReturnsAfterDialError == ~(openPc = "close" /\ connMu \in Openers)

\* C6: after the dial of an Open failed, Status is Unconnected and no handle
\* is stored.
C6_UnconnectedAfterDialError ==
    openPc = "close" => (status = "Unconnected" /\ conn = Nil)

\* C7: when a Close or CloseWithCode of the caller that found a connection
\* and closed it has returned, Status is Disconnected.
C7_DisconnectedAfterClose ==
    (returned.op = "CloseWithCode" /\ returned.res = "closed") =>
        status = "Disconnected"

\* C8: CloseWithCode on a connected session clears token and sequence when
\* the code is 1000 or 1001 and leaves both unchanged for any other code.
C8_CloseClearsOnGracefulOnly ==
    [][(returned'.op = "CloseWithCode" /\ conn # Nil) =>
          IF returned'.code \in {CloseNormalClosure, CloseGoingAway}
          THEN sessionID' = Nil /\ lastSeq' = Nil
          ELSE sessionID' = sessionID /\ lastSeq' = lastSeq]_vars

C8_Witness ==
    /\ returned = Call("CloseWithCode", CloseServiceRestart, "closed")
    /\ sessionID # Nil
    /\ lastSeq # Nil
    /\ conn = Nil

\* C9: a Send of an application command while Status is not Ready returns
\* the not-connected error and writes no frame.
C9_SendRejectedUnlessReady ==
    (returned.op = "Send" /\ status # "Ready") =>
        (returned.res = "NotConnected" /\ wrote = NoFrame)

\* C10: a heartbeat tick that finds the previous heartbeat unacknowledged
\* sends no heartbeat: it closes the connection and starts one reconnect.
C10_MissedAckForcesReconnect ==
    [][((\E c \in Conns : HeartbeatTick(c)) /\ ~hbAcked /\ conn # Nil) =>
          (wrote' = NoFrame /\ conn' = Nil /\ reconnects' = reconnects + 1)]_vars

\* C11: a reconnect goroutine that takes its step right after a graceful
\* Close (code 1000 or 1001) of the caller has returned opens no connection:
\* its Open does not go on to the dial.
C11_CloseStopsReconnect ==
    [][(/\ returned.op = "CloseWithCode"
        /\ returned.code \in {CloseNormalClosure, CloseGoingAway}
        /\ ReconnectOpen) => openPc' # "dial"]_vars

\* C12: a reader whose read fails while the stored handle is not its
\* connection exits and starts no reconnect and no close handler, and the
\* close of the caller that ends a blocked reader starts neither; any other
\* read failure starts one reconnect when auto-reconnect is on and the error
\* permits it, and otherwise closes and invokes the close handler.  (A read
\* error of c is looked for in the steps that end reader c or invoke the
\* close handler, write no frame and leave the status: such a step has the
\* outcome the policy gives for e, or it is not the read error e of c.)
C12_ReadErrorFollowsPolicy ==
    [][/\ (/\ returned'.op \in {"-", "closeHandlerFunc"}
           /\ wrote' = NoFrame
           /\ status' = status
           /\ (listen' # listen \/ returned'.op = "closeHandlerFunc")) =>
          \A c \in Conns :
             (Reading(c) /\ (listen'[c] = "none" \/ returned'.op = "closeHandlerFunc")) =>
               \A e \in ReadErrors :
                 \/ IF conn # c
                    THEN /\ reconnects' = reconnects
                         /\ returned' = NoCall
                         /\ conn' = conn
                         /\ listen'[c] = "none"
                    ELSE IF /\ autoReconnect
                            /\ e # "NetClosed"
                            /\ e \in ServerCloseCodes => ShouldReconnect(e)
                    THEN /\ reconnects' = reconnects + 1
                         /\ returned' = NoCall
                    ELSE /\ reconnects' = reconnects
                         /\ returned' = Call("closeHandlerFunc", 0, e)
                         /\ conn' = Nil
                 \/ ~ListenReadError(c, e)
       /\ returned'.op = "CloseWithCode" => reconnects' = reconnects]_vars

\* a reader is about to see the read error of a handle that the caller
\* closed, and another one whose close handler has just been invoked
C12_Witness ==
    /\ \E c \in Conns : Reading(c) /\ connState[c] = "closed" /\ conn # c
    /\ \E c \in Conns : listen[c] = "none" /\ returned.op = "closeHandlerFunc"

\* C13: after the server closed the connection with a code that is not
\* reconnectable (the close handler has just been given that code), no
\* reconnect goroutine of the session goes on to dial.
C13_NoReopenAfterFatalClose ==
    [][(/\ returned.op = "closeHandlerFunc"
        /\ returned.res \in ServerCloseCodes
        /\ ~ShouldReconnect(returned.res)
        /\ ReconnectOpen) => openPc' # "dial"]_vars

\* C14: a reconnect attempt whose dial failed goes on to its next try or to
\* its report; it is never left waiting in Close for the connMu of its own
\* Open, where neither a retry nor a report can follow.
C14_FailedReconnectGoesOn == ~(openPc = "close" /\ connMu = Reconnect)

\* C15: at most one heartbeat loop of the session has a live ticker.
C15_OneHeartbeatLoop ==
    Cardinality({c \in Conns : heartbeat[c] = "running"}) <= 1

\* C16: while a sequence is stored, a step that leaves one stored never
\* stores a smaller one.
C16_SequenceNeverDecreases ==
    [][(lastSeq # Nil /\ lastSeq' # Nil) => lastSeq' >= lastSeq]_vars

\* C17: every dispatch frame that listen decodes reaches the event handler
\* with its type and sequence, a Ready frame with an unparsable payload
\* included.
C17_HandlerOncePerDispatch ==
    [][\A c \in Conns, t \in DispatchTypes, s \in 1..MaxSeq, parses \in BOOLEAN :
          ListenDispatch(c, t, s, parses) =>
              returned' = Call("eventHandlerFunc", s, t)]_vars

\* a request holds its token from the insert of its entry to the close of
\* its sink
OpenRequest(r) == reqPc[r] = "open" /\ memberChan[r] = "open"

\* C18: two chunk requests that are open at the same time hold distinct
\* nonces.
C18_OpenRequestsHoldDistinctNonces ==
    \A r, q \in Reqs : (r # q /\ OpenRequest(r) /\ OpenRequest(q)) => nonce[r] # nonce[q]

\* C19: the HandleChunk that returns from the chunk with index = count - 1
\* has closed the sink of its request and removed its entry, and a member
\* is only ever delivered to a sink that is not closed.
C19_FinalChunkClosesSink ==
    [][/\ (hPc # "idle" /\ hPc' = "idle" /\ hPayload.index = hPayload.count - 1) =>
              /\ memberChan'[hRequest] = "closed"
              /\ chunkingRequests'[hPayload.nonce] = NoRequest
       /\ \A n \in Nonces, cnt \in 1..MaxChunks, ms \in MemberLists, pass \in Filters :
              (HandleChunk(n, cnt - 1, cnt, ms, pass) /\ chunkingRequests[n] # NoRequest) =>
                  hPc' # "idle"
       /\ received' # NoDelivery => memberChan[received'.to] = "open"]_vars

\* a HandleChunk of a payload with nonce n starts in this step
HandlesChunk(n) == hPc = "idle" /\ (hOut'.nonce = n \/ hPayload'.nonce = n)

\* r's cancel function has returned
Cancelled(r) == reqPc[r] = "cancelled"

\* C20 as stated: a chunk that arrives with the nonce of a request whose
\* cancel function has returned is a miss and puts nothing in the cache.
C20_ChunkAfterCancelIsMiss ==
    [][\A n \in Nonces, cnt \in 1..MaxChunks, ms \in MemberLists, pass \in Filters :
          \A i \in {0, cnt - 1} :
              (HandleChunk(n, i, cnt, ms, pass) /\ \E r \in Reqs : Cancelled(r) /\ nonce[r] = n) =>
                  (hOut' = [res |-> "miss", nonce |-> n] /\ members' = members)]_vars

\* C20 amended: when the cancel function of a request returns, its nonce is
\* absent from the map, and the request is never in the map again; a chunk
\* that arrives with that nonce before another request is stored under it
\* is a miss: nothing is delivered, nothing is put in the cache and no
\* request changes.
C20_CancelRemovesEntry ==
    [][/\ \A r \in Reqs :
             /\ (~Cancelled(r) /\ Cancelled(r)') => chunkingRequests'[nonce[r]] = NoRequest
             /\ Cancelled(r)' => chunkingRequests'[nonce'[r]] # r
       /\ \A n \in Nonces :
             (/\ HandlesChunk(n)
              /\ chunkingRequests[n] = NoRequest
              /\ \E r \in Reqs : Cancelled(r) /\ nonce[r] = n) =>
                 /\ hOut' = [res |-> "miss", nonce |-> n]
                 /\ hPc' = "idle"
                 /\ received' = NoDelivery
                 /\ UNCHANGED <<members, chunks, memberChan, chunkingRequests>>]_vars

\* a chunk with the nonce of a cancelled request has just been dropped
C20_Witness ==
    \E r \in Reqs :
        /\ Cancelled(r)
        /\ hOut = [res |-> "miss", nonce |-> nonce[r]]
        /\ chunkingRequests[nonce[r]] = NoRequest

\* the members of ms, as a set
Range(ms) == {ms[k] : k \in 1..Len(ms)}

\* the members of ms that are in pass, in the order of ms
RECURSIVE Filtered(_, _)
Filtered(ms, pass) ==
    IF ms = <<>> THEN <<>>
    ELSE IF Head(ms) \in pass THEN <<Head(ms)>> \o Filtered(Tail(ms), pass)
    ELSE Filtered(Tail(ms), pass)

\* C21: a HandleChunk that returns has sent to the sink of its request
\* exactly the members of its payload that pass the filter, in the order of
\* the payload, and has put every member of the payload in the cache; when
\* the chunks of a request arrive in order (the index of a chunk is the
\* number of chunks handled before it), the sink is closed and the entry
\* removed by chunk count-1 and the sink is left as it is by every other.
C21_FilteredInOrderThenClosed ==
    [][/\ received' # NoDelivery =>
             (received'.to = hRequest /\ received'.member \in hPayload.pass)
       /\ (hPc # "idle" /\ hPc' = "idle") =>
             /\ (IF received' # NoDelivery
                 THEN Append(hPayload.sent, received'.member)
                 ELSE hPayload.sent) = Filtered(hPayload.all, hPayload.pass)
             /\ Range(hPayload.all) \subseteq members'
             /\ hPayload.index = chunks[hRequest] =>
                    IF hPayload.index = hPayload.count - 1
                    THEN /\ memberChan'[hRequest] = "closed"
                         /\ chunkingRequests'[hPayload.nonce] = NoRequest
                    ELSE /\ memberChan'[hRequest] = memberChan[hRequest]
                         /\ chunks'[hRequest] = chunks[hRequest] + 1
       /\ (hPc = "idle" /\ hOut'.res = "returned") =>
             \A cnt \in 1..MaxChunks, ms \in MemberLists, pass \in Filters :
                 \A i \in {0, cnt - 1} :
                     HandleChunk(hOut'.nonce, i, cnt, ms, pass) =>
                         /\ Filtered(ms, pass) = <<>>
                         /\ Range(ms) \subseteq members'
                         /\ LET r == chunkingRequests[hOut'.nonce] IN
                            i = chunks[r] =>
                                /\ i # cnt - 1
                                /\ memberChan'[r] = memberChan[r]
                                /\ chunks'[r] = chunks[r] + 1]_vars

\* the last chunk of two, arrived in order, has sent a member through a
\* filter that rejects another one, and has closed the sink
C21_Witness ==
    /\ hPc = "delete"
    /\ panicked = "-"
    /\ hPayload.count = MaxChunks
    /\ hPayload.index = hPayload.count - 1
    /\ chunks[hRequest] = hPayload.index
    /\ hPayload.pass # MemberSet
    /\ hPayload.sent # <<>>
    /\ Range(hPayload.all) \subseteq members
    /\ memberChan[hRequest] = "closed"

\* C22: a chunk whose nonce is not in the map is dropped: the call ends at
\* the lookup without a panic, and the map, the chunk count of every open
\* request and every open sink are as they were.
C22_MissChangesNothing ==
    [][\A n \in Nonces :
          (HandlesChunk(n) /\ chunkingRequests[n] = NoRequest) =>
              /\ hOut' = [res |-> "miss", nonce |-> n]
              /\ hPc' = "idle"
              /\ panicked' = "-"
              /\ chunkingRequests' = chunkingRequests
              /\ \A r \in Reqs :
                     OpenRequest(r) => (chunks'[r] = chunks[r] /\ OpenRequest(r)')]_vars

\* a chunk has just been dropped while a request that has counted a chunk
\* is open under the other nonce
C22_Witness ==
    /\ hOut.res = "miss"
    /\ panicked = "-"
    /\ \E r \in Reqs :
          /\ OpenRequest(r)
          /\ chunks[r] > 0
          /\ chunkingRequests[nonce[r]] = r
          /\ nonce[r] # hOut.nonce
\* C23: a request on a shard whose intents lack GuildMembers ends at once
\* with ErrNoGuildMembersIntent: no call gets as far as the nonce loop, the
\* insert into the map or the shard.Send that follows it.
C23_MissingIntentRefused ==
    shard = WithoutMembers =>
        /\ \A n \in Nonces : chunkingRequests[n] = NoRequest
        /\ \A r \in Reqs :
              /\ reqPc[r] \in {"idle", "ErrNoGuildMembersIntent"}
              /\ nonce[r] = "-"
              /\ memberChan[r] = "none"

\* a request on such a shard has been refused
C23_Witness ==
    /\ shard = WithoutMembers
    /\ \E r \in Reqs : reqPc[r] = "ErrNoGuildMembersIntent"

\* C24: a call of requestGuildMembers that is in its select or in the
\* cancel it calls when ctx is done goes on to a return -- its members once
\* the sink is closed, ctx.Err() after the cancel -- and when it has
\* returned ctx.Err() its nonce is not in the map.
C24_GatherEndsInReturn ==
    \A r \in GatherReqs :
        /\ reqPc[r] \in {"open", "closing"} => panicked = "-"
        /\ reqPc[r] = "cancelled" => chunkingRequests[nonce[r]] = NoRequest

\* C25: after SetUnavailable(id), SetUnready(id), SetReady(id), called one
\* after the other from any state of the cache, id is neither in
\* unavailableGuilds nor in unreadyGuilds.
C25_MarkedReadyIsInNeitherSet ==
    marked.n = 3 =>
        /\ marked.id \notin guildCache.unavailableGuilds
        /\ marked.id \notin guildCache.unreadyGuilds

\* C26: no guild id is in unreadyGuilds and in unavailableGuilds at the
\* same time.
C26_NeverUnreadyAndUnavailable ==
    guildCache.unreadyGuilds \cap guildCache.unavailableGuilds = {}

\* the frames admitted in the Window ticks that end with tick t
RECURSIVE AdmittedIn(_, _)
AdmittedIn(t, k) ==
    IF k = 0 \/ t < 0 THEN 0 ELSE admitted[t] + AdmittedIn(t - 1, k - 1)

\* C27: in any Window consecutive ticks the senders are admitted at most
\* Budget frames.
C27_RollingWindowWithinBudget ==
    \A t \in 0..MaxTime : AdmittedIn(t, Window) <= Budget

\* C28 as stated: a Resumed dispatch that listen takes on the stored
\* connection after resume() ran there (Status is Resuming) sets Status to
\* Ready.
C28_ResumedMakesReady ==
    [][\A c \in Conns, s \in 1..MaxSeq :
          (/\ status = "Resuming"
           /\ conn = c
           /\ listen[c] = "read"
           /\ ListenDispatch(c, "RESUMED", s, TRUE)) => status' = "Ready"]_vars

\* listen c makes the Send of identify() or resume() in this step
HandshakeStep(c) == listen[c] = "handshake" /\ listen'[c] = "read"

C30_HeartbeatFailureRestarts ==
    [][/\ \A op \in {"Heartbeat", "HeartbeatReply"} :
            (/\ conn # Nil
             /\ returned' = NoCall
             /\ heartbeatTicker' = Nil
             /\ sendHeartbeat(op, "err")) =>
                /\ wrote' = NoFrame
                /\ conn' = Nil
                /\ connState'[conn] = "closed"
                /\ sessionID' = sessionID
                /\ lastSeq' = lastSeq
                /\ reconnects' = reconnects + 1
       /\ wrote'.op \in {"Heartbeat", "HeartbeatReply"} =>
             /\ wrote'.seq = lastSeq
             /\ conn' = conn
             /\ reconnects' = reconnects]_vars

C30_Witness ==
    /\ conn = Nil
    /\ reconnects = 1
    /\ sessionID # Nil
    /\ lastSeq # Nil
    /\ wrote = NoFrame
    /\ returned = NoCall
    /\ \E c \in Conns :
          connState[c] = "closed" /\ listen[c] = "handshake" /\ heartbeat[c] = "none"

\* C31: when the event handler has just been invoked for a dispatch frame,
\* the stored sequence is the sequence of that frame, and for a Ready frame
\* the stored token is the session id of its payload (the Ready of
\* connection c carries session id c).
C31_StoredBeforeHandler ==
    returned.op = "eventHandlerFunc" =>
        /\ lastSeq = returned.code
        /\ returned.res = "READY" =>
              \E c \in Conns : CanRead(c) /\ Helloed(c) /\ sessionID = c

C31_Witness ==
    /\ returned.op = "eventHandlerFunc"
    /\ returned.res = "READY"
    /\ returned.code = MaxSeq
    /\ lastSeq = MaxSeq
    /\ sessionID = conn
    /\ status = "Ready"

\* C32: a frame is written through send only on the stored connection, which
\* no CloseWithCode has closed and no Open is replacing, by a flow that holds
\* connMu from its nil check to its return and has a slot of the limiter
\* (its Wait succeeded); while a sender waits in Wait it holds connMu, no
\* other flow writes, and the handle is neither closed nor replaced; a Send
\* that fails writes nothing and takes no slot.
C32_WritesUnderLock ==
    [][/\ wrote' # NoFrame =>
             /\ conn # Nil
             /\ conn' = conn
             /\ connState[conn] # "closed"
             /\ openPc = "-"
             /\ connMu \in {NoOne, Sender}
             /\ connMu' = NoOne
             /\ connMu = Sender <=> waiting # NoSender
             /\ waiting' = NoSender
             /\ rateLimiter.remaining > 0
             /\ rateLimiter'.remaining = rateLimiter.remaining - 1
       /\ waiting # NoSender =>
             /\ connMu = Sender
             /\ conn # Nil
             /\ conn' = conn
             /\ connState' = connState
             /\ waiting' \in {waiting, NoSender}
       /\ (returned'.op = "Send" /\ returned'.res # "ok") =>
             (wrote' = NoFrame /\ rateLimiter' = rateLimiter)]_vars

\* a sender has written its frame, in a new window of the limiter, on the
\* connection that an Open stored after a close
C32_Witness ==
    /\ wrote = Frame("Command", 0, 0)
    /\ returned = Call("Send", 0, "ok")
    /\ connMu = NoOne
    /\ waiting = NoSender
    /\ conn = 2
    /\ connState[1] = "closed"
    /\ rateLimiter.remaining = Budget - 1
    /\ admitted[now] = 1
    /\ now > 0
    /\ now % Window = 0

\* C33 as stated: the ticker of the heartbeat loop that the Hello of
\* connection c started was created with the interval of that Hello.
C33_TicksAtHelloInterval ==
    \A c \in Conns :
        heartbeat[c] \in {"running", "panic"} => tickerInterval[c] = IntervalOf(c)

\* C34 as stated: no close(request.memberChan) finds the sink of its request
\* already closed, whichever of the final chunk and the cancel function
\* comes first.
C34_SinkClosedAtMostOnce == panicked # "close of closed channel"

\* C35 as stated: the send of HandleChunk to the sink of its request never
\* finds the sink closed, also when the cancel function of the request runs
\* while HandleChunk is in that send.
C35_NoSendToClosedSink ==
    /\ panicked # "send on closed channel"
    /\ hPc = "send" => memberChan[hRequest] = "open"

\* C36 as stated: once a call of requestGuildMembers has returned the error
\* of shard.Send, the map holds no entry of that call.
C36_NoEntryAfterSendError ==
    \A r \in GatherReqs :
        reqPc[r] = "SendErr" => chunkingRequests[nonce[r]] # r

\* C37 as stated: a HandleChunk that stands in the send of a member to the
\* sink eventually leaves that send, whatever the caller of the request
\* does with the sink.  (Refuted: the sink has no buffer and the send has no
\* alternative, so after the caller stopped reading the send never ends.)
C37_SendEventuallyEnds ==
    (hPc = "send") ~> (hPc # "send" \/ panicked # "-")

====
